---- MODULE Spec2Model ----
(***************************************************************************)
(* State-machine model of src/predictions.py: the Polymarket dashboard.    *)
(*                                                                         *)
(* One invocation of main() is a straight-line process whose position is   *)
(* pc.  The external collaborators are inputs: the widgets return what the *)
(* user chose, the server returns any response, datetime.now() returns any *)
(* instant.  An uncaught exception ends the invocation in pc = "raised"    *)
(* with the exception recorded in error.                                   *)
(*                                                                         *)
(* Numbers: floats are held in hundredths (float("0.6") is 60), instants   *)
(* and naive local datetimes in whole seconds.                             *)
(***************************************************************************)
EXTENDS Integers, Sequences, FiniteSets, TLC

VARIABLES
    pc,                  \* position of main(), or of the direct call
    selected_categories, \* st.sidebar.multiselect's value (line 93)
    category,            \* st.sidebar.radio's value (line 104) / the argument
    auto_refresh,        \* st.sidebar.checkbox's value (line 107)
    refresh_interval,    \* st.sidebar.slider's value (line 108)
    response,            \* what the endpoint answered to requests.post
    raw_data,            \* main's raw_data (line 112)
    now,                 \* datetime.now() as read by process_data (line 65)
    df,                  \* main's df (lines 113, 117)
    total_markets,       \* "Total Markets: {len(df)}" (line 121), -1 if unwritten
    market_data,         \* the row shown under "Market Details" (line 158)
    table,               \* the frame handed to st.dataframe (line 167)
    export,              \* the frame handed to get_table_download_link (168)
    requests,            \* the variables of every request sent, in order
    events,              \* the steps this invocation has started, in order
    slept,               \* seconds spent in time.sleep by this invocation
    error,               \* the uncaught exception, if any
    prev_events          \* the events of the invocation that asked for this one

vars == <<pc, selected_categories, category, auto_refresh, refresh_interval,
          response, raw_data, now, df, total_markets, market_data, table,
          export, requests, events, slept, error, prev_events>>

-----------------------------------------------------------------------------
(* Bounds and inputs *)

MaxMarkets == 2

CATEGORIES ==
    <<"Politics", "Crypto", "Sports", "Entertainment", "Science",
      "Economics", "Other">>

CategorySet == {CATEGORIES[i] : i \in 1..Len(CATEGORIES)}

DefaultSelection == {"Politics", "Crypto"}

\* The selections a user makes in the multiselect: subsets of CATEGORIES.
Selections ==
    {{}, DefaultSelection, {"Politics"}, {"Crypto", "Sports", "Other"}}

SliderMin == 60
SliderMax == 600
SliderDefault == 300

RefreshIntervals == {SliderMin, SliderDefault, SliderMax}

\* Python's None, as an argument of fetch_polymarket_data.
PyNone == "<None>"

\* Arguments of a direct call of fetch_polymarket_data.
FetchArgs == CategorySet \cup {"All", "Weather", "", PyNone}

\* Offset of the local zone from UTC, in seconds.
UtcOffset == 3600

SecondsPerDay == 86400

\* The instants (epoch seconds) at which datetime.now() is read.
NowValues == {1700000000, 1700000060, 1700086400}

\* float(s) for the literals that occur, in hundredths.
FloatTable ==
    { <<"1000.5", 100050>>, <<"0.6", 60>>, <<"0.4", 40>>,
      <<"600", 60000>>, <<"400", 40000>>, <<"250", 25000>>,
      <<"350", 35000>>, <<"75", 7500>> }

\* int(s) for the literals that occur.
IntTable ==
    { <<"1700259200", 1700259200>>, <<"1699996400", 1699996400>>,
      <<"1700086400", 1700086400>> }

IsFloat(s) == \E p \in FloatTable : p[1] = s

float(s) == (CHOOSE p \in FloatTable : p[1] = s)[2]

IsInt(s) == \E p \in IntTable : p[1] = s

int(s) == (CHOOSE p \in IntTable : p[1] = s)[2]

Outcome(p, y, n) == [price |-> p, totalVolumeYes |-> y, totalVolumeNo |-> n]

\* Raw market records as the endpoint may return them.
RawSamples ==
    { [id |-> "m1", question |-> "q1", category |-> "Crypto",
       volume |-> "1000.5",
       outcomes |-> <<Outcome("0.6", "600", "250"), Outcome("0.4", "350", "400")>>,
       endDate |-> "1700259200"],
      [id |-> "m2", question |-> "q2", category |-> "Politics",
       volume |-> "600",
       outcomes |-> <<Outcome("0.4", "250", "75"), Outcome("0.6", "75", "350")>>,
       endDate |-> "1699996400"],
      [id |-> "m3", question |-> "q3", category |-> "Weather",
       volume |-> "75",
       outcomes |-> <<Outcome("0.6", "75", "600"), Outcome("0.4", "400", "0.4")>>,
       endDate |-> "1700086400"],
      [id |-> "m4", question |-> "q4", category |-> "Politics",
       volume |-> "n/a",
       outcomes |-> <<Outcome("0.6", "600", "250"), Outcome("0.4", "350", "400")>>,
       endDate |-> "1700259200"],
      [id |-> "m5", question |-> "q5", category |-> "Crypto",
       volume |-> "400",
       outcomes |-> <<Outcome("0.6", "600", "250")>>,
       endDate |-> "1700259200"] }

SeqsUpTo(S, n) == UNION {[1..k -> S] : k \in 0..n}

\* What the endpoint can answer: no answer, an answer without the
\* data/markets envelope, or a list of markets.
Responses ==
    { [kind |-> "transport_error", markets |-> <<>>],
      [kind |-> "no_envelope", markets |-> <<>>] }
    \cup { [kind |-> "ok", markets |-> s] : s \in SeqsUpTo(RawSamples, MaxMarkets) }

NoError == [stage |-> "none", type |-> "none"]

NoFrame == [defined |-> FALSE, rows |-> <<>>]

NoResponse == [kind |-> "none", markets |-> <<>>]

NoRow == [id |-> ""]

-----------------------------------------------------------------------------
(* fetch_polymarket_data *)

NoVariables == [k \in {} |-> ""]

\* A fetcher that validates the category against the known list.
RequestVariables_KnownOnly(cat) ==
    IF cat \in CategorySet THEN [k \in {"category"} |-> cat] ELSE NoVariables

\* A fetcher that never omits the filter.
RequestVariables_Always(cat) == [k \in {"category"} |-> cat]

\* Line 43: variables = {"category": category} if category != "All" else {}
RequestVariables(cat) ==
    IF cat # "All" THEN [k \in {"category"} |-> cat] ELSE NoVariables

\* Lines 43-45: the request sent, and the list returned or the exception.
fetch_polymarket_data(cat, resp) ==
    [ sent |-> RequestVariables(cat),
      err |-> CASE resp.kind = "transport_error" -> "ConnectionError"
                [] resp.kind = "no_envelope" -> "KeyError"
                [] OTHER -> "none",
      markets |-> IF resp.kind = "ok" THEN resp.markets ELSE <<>> ]

-----------------------------------------------------------------------------
(* process_data *)

\* datetime.fromtimestamp(t): the naive local datetime of epoch second t.
fromtimestamp(t) == t + UtcOffset

\* datetime.now() read at instant t: the naive local datetime.
datetime_now(t) == t + UtcOffset

\* Whole days rounded toward zero instead of floored.
TimedeltaDays_Trunc(delta) ==
    IF delta < 0
    THEN -((-delta) \div SecondsPerDay)
    ELSE delta \div SecondsPerDay

\* Timedelta.days: the whole days of the delta, floored (a normalised
\* timedelta keeps its seconds component in 0..86399, so -1 hour has
\* days = -1).  \div is floor division.
TimedeltaDays(delta) == delta \div SecondsPerDay

\* Lines 50-60: the exception one record's dict display raises, evaluated
\* in the order of the keys, or "none".
RecordError(m) ==
    IF ~IsFloat(m.volume) THEN "ValueError"
    ELSE IF Len(m.outcomes) < 1 THEN "IndexError"
    ELSE IF ~IsFloat(m.outcomes[1].price) THEN "ValueError"
    ELSE IF Len(m.outcomes) < 2 THEN "IndexError"
    ELSE IF ~IsFloat(m.outcomes[2].price) THEN "ValueError"
    ELSE IF ~IsFloat(m.outcomes[1].totalVolumeYes) THEN "ValueError"
    ELSE IF ~IsFloat(m.outcomes[2].totalVolumeNo) THEN "ValueError"
    ELSE IF ~IsInt(m.endDate) THEN "ValueError"
    ELSE "none"

\* Lines 50-60: one row of the frame.
BaseRow(m) ==
    [ id |-> m.id,
      question |-> m.question,
      category |-> m.category,
      volume |-> float(m.volume),
      yes_price |-> float(m.outcomes[1].price),
      no_price |-> float(m.outcomes[2].price),
      yes_volume |-> float(m.outcomes[1].totalVolumeYes),
      no_volume |-> float(m.outcomes[2].totalVolumeNo),
      end_date |-> fromtimestamp(int(m.endDate)) ]

\* Lines 64-65: the two derived columns.
DerivedRow(r, nowLocal) ==
    [ id |-> r.id, question |-> r.question, category |-> r.category,
      volume |-> r.volume, yes_price |-> r.yes_price, no_price |-> r.no_price,
      yes_volume |-> r.yes_volume, no_volume |-> r.no_volume,
      end_date |-> r.end_date,
      total_volume |-> r.yes_volume + r.no_volume,
      days_to_end |-> TimedeltaDays(r.end_date - nowLocal) ]

FirstBad(markets) ==
    CHOOSE i \in 1..Len(markets) :
        /\ RecordError(markets[i]) # "none"
        /\ \A j \in 1..(i - 1) : RecordError(markets[j]) = "none"

\* Lines 48-67.  The list comprehension stops at the first record that
\* raises.  pd.DataFrame([]) has no columns, so for an empty list line 64's
\* df['yes_volume'] raises KeyError.
process_data(markets, nowLocal) ==
    IF \E i \in 1..Len(markets) : RecordError(markets[i]) # "none"
    THEN [err |-> RecordError(markets[FirstBad(markets)]), rows |-> <<>>]
    ELSE IF Len(markets) = 0
    THEN [err |-> "KeyError", rows |-> <<>>]
    ELSE [err |-> "none",
          rows |-> [i \in 1..Len(markets) |->
                        DerivedRow(BaseRow(markets[i]), nowLocal)]]

-----------------------------------------------------------------------------
(* main *)

\* A filter that keeps every row.
isin_filter_KeepAll(rows, selected) == rows

\* Line 117: df[df['category'].isin(selected_categories)]
isin_filter(rows, selected) ==
    SelectSeq(rows, LAMBDA r : r.category \in selected)

\* The selection filter applied whatever the view.
FilterView_Always(frame, cat, selected) ==
    [frame EXCEPT !.rows = isin_filter(frame.rows, selected)]

\* Lines 116-117.
FilterView(frame, cat, selected) ==
    IF cat = "All"
    THEN [frame EXCEPT !.rows = isin_filter(frame.rows, selected)]
    ELSE frame

Init ==
    /\ pc = "start"
    /\ selected_categories = {}
    /\ category = ""
    /\ auto_refresh = FALSE
    /\ refresh_interval = 0
    /\ response = NoResponse
    /\ raw_data = <<>>
    /\ now = 0
    /\ df = NoFrame
    /\ total_markets = -1
    /\ market_data = NoRow
    /\ table = NoFrame
    /\ export = NoFrame
    /\ requests = <<>>
    /\ events = <<>>
    /\ slept = 0
    /\ error = NoError
    /\ prev_events = <<>>

\* main without the early return: an empty selection warns and goes on.
ReadWidgets_NoReturn ==
    /\ pc = "start"
    /\ \E sel \in Selections :
        /\ selected_categories' = sel
        /\ events' = IF sel = {} THEN Append(events, "warning") ELSE events
        /\ \E cat \in {"All"} \cup sel : category' = cat
        /\ auto_refresh' \in BOOLEAN
        /\ refresh_interval' \in RefreshIntervals
        /\ pc' = "fetch"
    /\ UNCHANGED <<response, raw_data, now, df, total_markets, market_data,
                   table, export, requests, slept, error, prev_events>>

\* Lines 87-108: the widgets are read; an empty selection warns and returns.
ReadWidgets ==
    /\ pc = "start"
    /\ \E sel \in Selections :
        /\ selected_categories' = sel
        /\ IF sel = {}
           THEN /\ events' = Append(events, "warning")
                /\ pc' = "returned"
                /\ UNCHANGED <<category, auto_refresh, refresh_interval>>
           ELSE /\ \E cat \in {"All"} \cup sel : category' = cat
                /\ auto_refresh' \in BOOLEAN
                /\ refresh_interval' \in RefreshIntervals
                /\ pc' = "fetch"
                /\ UNCHANGED events
    /\ UNCHANGED <<response, raw_data, now, df, total_markets, market_data,
                   table, export, requests, slept, error, prev_events>>

\* A call that swallows a failed fetch and goes on with no markets.
CallFetch_Swallow(okpc) ==
    \E resp \in Responses :
        LET r == fetch_polymarket_data(category, resp) IN
        /\ response' = resp
        /\ requests' = Append(requests, r.sent)
        /\ events' = Append(events, "fetch")
        /\ raw_data' = r.markets
        /\ pc' = okpc
        /\ UNCHANGED <<selected_categories, category, auto_refresh,
                       refresh_interval, now, df, total_markets, market_data,
                       table, export, slept, error, prev_events>>

\* fetch_polymarket_data(category), lines 26-45, continuing at okpc.
CallFetch(okpc) ==
    \E resp \in Responses :
        LET r == fetch_polymarket_data(category, resp) IN
        /\ response' = resp
        /\ requests' = Append(requests, r.sent)
        /\ events' = Append(events, "fetch")
        /\ IF r.err = "none"
           THEN /\ raw_data' = r.markets
                /\ pc' = okpc
                /\ UNCHANGED error
           ELSE /\ error' = [stage |-> "fetch", type |-> r.err]
                /\ pc' = "raised"
                /\ UNCHANGED raw_data
        /\ UNCHANGED <<selected_categories, category, auto_refresh,
                       refresh_interval, now, df, total_markets, market_data,
                       table, export, slept, prev_events>>

\* Line 112.
Fetch ==
    /\ pc = "fetch"
    /\ CallFetch("shape")

\* Line 113.
Shape ==
    /\ pc = "shape"
    /\ events' = Append(events, "shape")
    /\ \E t \in NowValues :
        LET r == process_data(raw_data, datetime_now(t)) IN
        IF r.err = "none"
        THEN /\ now' = datetime_now(t)
             /\ df' = [defined |-> TRUE, rows |-> r.rows]
             /\ pc' = "filter"
             /\ UNCHANGED error
        ELSE /\ error' = [stage |-> "shape", type |-> r.err]
             /\ pc' = "raised"
             /\ UNCHANGED <<now, df>>
    /\ UNCHANGED <<selected_categories, category, auto_refresh,
                   refresh_interval, response, raw_data, total_markets,
                   market_data, table, export, requests, slept, prev_events>>

\* Lines 115-117.
FilterRows ==
    /\ pc = "filter"
    /\ df' = FilterView(df, category, selected_categories)
    /\ pc' = "overview"
    /\ UNCHANGED <<selected_categories, category, auto_refresh,
                   refresh_interval, response, raw_data, now, total_markets,
                   market_data, table, export, requests, events, slept, error,
                   prev_events>>

\* Lines 119-153: the statistics and the three charts.
DisplayOverview ==
    /\ pc = "overview"
    /\ events' = Append(events, "overview")
    /\ total_markets' = Len(df.rows)
    /\ pc' = "details"
    /\ UNCHANGED <<selected_categories, category, auto_refresh,
                   refresh_interval, response, raw_data, now, df, market_data,
                   table, export, requests, slept, error, prev_events>>

\* Lines 155-163: the user picks a question; .iloc[0] takes the first row
\* with that question and raises IndexError on an empty frame.
DisplayDetails ==
    /\ pc = "details"
    /\ events' = Append(events, "details")
    /\ IF Len(df.rows) = 0
       THEN /\ error' = [stage |-> "display", type |-> "IndexError"]
            /\ pc' = "raised"
            /\ UNCHANGED market_data
       ELSE /\ \E i \in 1..Len(df.rows) :
                LET hits == {j \in 1..Len(df.rows) :
                                df.rows[j].question = df.rows[i].question}
                    first == CHOOSE j \in hits : \A k \in hits : j <= k
                IN market_data' = df.rows[first]
            /\ pc' = "table"
            /\ UNCHANGED error
    /\ UNCHANGED <<selected_categories, category, auto_refresh,
                   refresh_interval, response, raw_data, now, df,
                   total_markets, table, export, requests, slept, prev_events>>

\* Lines 165-171: the data table, its CSV link, the last-updated line.
DisplayTable ==
    /\ pc = "table"
    /\ events' = Append(events, "table")
    /\ table' = df
    /\ export' = df
    /\ pc' = "refresh"
    /\ UNCHANGED <<selected_categories, category, auto_refresh,
                   refresh_interval, response, raw_data, now, df,
                   total_markets, market_data, requests, slept, error,
                   prev_events>>

\* The pause taken whether or not auto-refresh is enabled.
AutoRefresh_Always ==
    /\ pc = "refresh"
    /\ events' = Append(events, "sleep")
    /\ slept' = slept + refresh_interval
    /\ pc' = "rerun"
    /\ UNCHANGED <<selected_categories, category, auto_refresh,
                   refresh_interval, response, raw_data, now, df,
                   total_markets, market_data, table, export, requests, error,
                   prev_events>>

\* Lines 174-175: time.sleep(refresh_interval).
AutoRefresh ==
    /\ pc = "refresh"
    /\ auto_refresh
    /\ events' = Append(events, "sleep")
    /\ slept' = slept + refresh_interval
    /\ pc' = "rerun"
    /\ UNCHANGED <<selected_categories, category, auto_refresh,
                   refresh_interval, response, raw_data, now, df,
                   total_markets, market_data, table, export, requests, error,
                   prev_events>>

\* A rerun request that returns to the caller: the loop goes round in place.
Rerun_Loop ==
    /\ pc = "rerun"
    /\ events' = Append(events, "rerun")
    /\ pc' = "fetch"
    /\ UNCHANGED <<selected_categories, category, auto_refresh,
                   refresh_interval, response, raw_data, now, df,
                   total_markets, market_data, table, export, requests, slept,
                   error, prev_events>>

\* Line 176: st.experimental_rerun() leaves main and asks for a fresh run.
Rerun ==
    /\ pc = "rerun"
    /\ events' = Append(events, "rerun")
    /\ pc' = "rerun_requested"
    /\ UNCHANGED <<selected_categories, category, auto_refresh,
                   refresh_interval, response, raw_data, now, df,
                   total_markets, market_data, table, export, requests, slept,
                   error, prev_events>>

\* Lines 177-178: break, and main returns.
Break ==
    /\ pc = "refresh"
    /\ ~auto_refresh
    /\ pc' = "returned"
    /\ UNCHANGED <<selected_categories, category, auto_refresh,
                   refresh_interval, response, raw_data, now, df,
                   total_markets, market_data, table, export, requests,
                   events, slept, error, prev_events>>

\* Lines 180-181, run again on the rerun request: every local starts afresh.
ScriptRerun ==
    /\ pc = "rerun_requested"
    /\ pc' = "start"
    /\ prev_events' = events
    /\ selected_categories' = {}
    /\ category' = ""
    /\ auto_refresh' = FALSE
    /\ refresh_interval' = 0
    /\ response' = NoResponse
    /\ raw_data' = <<>>
    /\ now' = 0
    /\ df' = NoFrame
    /\ total_markets' = -1
    /\ market_data' = NoRow
    /\ table' = NoFrame
    /\ export' = NoFrame
    /\ requests' = <<>>
    /\ events' = <<>>
    /\ slept' = 0
    /\ error' = NoError

Next ==
    \/ ReadWidgets
    \/ Fetch
    \/ Shape
    \/ FilterRows
    \/ DisplayOverview
    \/ DisplayDetails
    \/ DisplayTable
    \/ AutoRefresh
    \/ Rerun
    \/ Break
    \/ ScriptRerun

Spec == Init /\ [][Next]_vars

-----------------------------------------------------------------------------
(* fetch_polymarket_data called directly with any argument *)

InitFetch ==
    /\ pc = "call"
    /\ category \in FetchArgs
    /\ selected_categories = {}
    /\ auto_refresh = FALSE
    /\ refresh_interval = 0
    /\ response = NoResponse
    /\ raw_data = <<>>
    /\ now = 0
    /\ df = NoFrame
    /\ total_markets = -1
    /\ market_data = NoRow
    /\ table = NoFrame
    /\ export = NoFrame
    /\ requests = <<>>
    /\ events = <<>>
    /\ slept = 0
    /\ error = NoError
    /\ prev_events = <<>>

FetchCall ==
    /\ pc = "call"
    /\ CallFetch("called")

NextFetch == FetchCall

SpecFetch == InitFetch /\ [][NextFetch]_vars

-----------------------------------------------------------------------------
(* Properties *)

Has(e) == \E i \in 1..Len(events) : events[i] = e

Count(e) == Cardinality({i \in 1..Len(events) : events[i] = e})

IsPrefix(s, t) ==
    /\ Len(s) <= Len(t)
    /\ \A i \in 1..Len(s) : s[i] = t[i]

\* The steps of one complete cycle with auto-refresh, in order.
CycleOrder ==
    <<"fetch", "shape", "overview", "details", "table", "sleep", "rerun">>

\* A record with exactly two outcome entries and parseable numeric fields.
WellFormed(m) ==
    /\ Len(m.outcomes) = 2
    /\ IsFloat(m.volume)
    /\ IsInt(m.endDate)
    /\ \A k \in 1..2 :
        /\ IsFloat(m.outcomes[k].price)
        /\ IsFloat(m.outcomes[k].totalVolumeYes)
        /\ IsFloat(m.outcomes[k].totalVolumeNo)

\* A record on which the shape step fails: fewer than two outcome entries,
\* or an unparseable numeric field among those the shape step reads.
Malformed(m) ==
    \/ Len(m.outcomes) < 2
    \/ ~IsFloat(m.volume)
    \/ ~IsInt(m.endDate)
    \/ /\ Len(m.outcomes) >= 2
       /\ \/ ~IsFloat(m.outcomes[1].price)
          \/ ~IsFloat(m.outcomes[2].price)
          \/ ~IsFloat(m.outcomes[1].totalVolumeYes)
          \/ ~IsFloat(m.outcomes[2].totalVolumeNo)

\* The output of process_data on this cycle's fetched records.
Shaped == process_data(raw_data, now).rows

\* C1: when main runs with an empty category selection the cycle is
\* short-circuited: no request is sent, exactly one warning is emitted, no
\* shaping, display, sleep or rerun happens, and main has returned.
C1_EmptySelectionShortCircuits ==
    (pc # "start" /\ selected_categories = {}) =>
        /\ pc = "returned"
        /\ events = <<"warning">>
        /\ requests = <<>>
        /\ response = NoResponse
        /\ df = NoFrame
        /\ table = NoFrame
        /\ export = NoFrame
        /\ total_markets = -1
        /\ slept = 0
        /\ ~ENABLED Next

C1_Witness ==
    /\ pc = "returned"
    /\ selected_categories = {}
    /\ Count("warning") = 1
    /\ requests = <<>>

\* C2: for every non-empty category c other than "All", known or not,
\* fetch_polymarket_data(c) sends exactly one request whose variables hold
\* the key category with the value c unchanged.
C2_CategoryPassedThrough ==
    (pc # "call" /\ category \notin {"All", "", PyNone}) =>
        /\ Len(requests) = 1
        /\ DOMAIN requests[1] = {"category"}
        /\ requests[1]["category"] = category

C2_Witness ==
    /\ pc = "called"
    /\ category \notin CategorySet \cup {"All", "", PyNone}
    /\ Len(requests) = 1
    /\ requests[1]["category"] = category

\* C3: the request variables hold a category key if and only if the argument
\* differs from "All"; for "All" they hold no key at all.
C3_FilterOmittedOnlyForAll ==
    (pc # "call") =>
        /\ Len(requests) = 1
        /\ ("category" \in DOMAIN requests[1]) <=> (category # "All")
        /\ (category = "All") => (DOMAIN requests[1] = {})

C3_Witness ==
    /\ pc = "called"
    /\ category = "All"
    /\ Len(requests) = 1
    /\ DOMAIN requests[1] = {}

\* C4: for every sequence of well-formed raw records of any length 0..N,
\* process_data returns a table with one row per record in input order
\* (row i carries the id of record i), total_volume = yes_volume + no_volume,
\* yes_volume taken from outcome 0 and no_volume from outcome 1.
C4_OneRowPerRecord ==
    (Has("shape") /\ \A i \in 1..Len(raw_data) : WellFormed(raw_data[i])) =>
        /\ error.stage # "shape"
        /\ pc = "filter" =>
            /\ df.defined
            /\ Len(df.rows) = Len(raw_data)
            /\ \A i \in 1..Len(raw_data) :
                /\ df.rows[i].id = raw_data[i].id
                /\ df.rows[i].yes_volume =
                       float(raw_data[i].outcomes[1].totalVolumeYes)
                /\ df.rows[i].no_volume =
                       float(raw_data[i].outcomes[2].totalVolumeNo)
                /\ df.rows[i].total_volume =
                       df.rows[i].yes_volume + df.rows[i].no_volume

\* C4 on the inputs the code handles: a non-empty sequence of well-formed
\* records is shaped into one row per record, in order, with
\* total_volume = yes_volume + no_volume.
C4_NonEmptyShaped ==
    (Has("shape") /\ Len(raw_data) > 0
        /\ \A i \in 1..Len(raw_data) : WellFormed(raw_data[i])) =>
        /\ error.stage # "shape"
        /\ Len(Shaped) = Len(raw_data)
        /\ \A i \in 1..Len(raw_data) :
            /\ Shaped[i].id = raw_data[i].id
            /\ Shaped[i].yes_volume =
                   float(raw_data[i].outcomes[1].totalVolumeYes)
            /\ Shaped[i].no_volume =
                   float(raw_data[i].outcomes[2].totalVolumeNo)
            /\ Shaped[i].total_volume =
                   Shaped[i].yes_volume + Shaped[i].no_volume

\* The indices of the shaped rows whose category is selected.
KeptIdx == {i \in 1..Len(Shaped) : Shaped[i].category \in selected_categories}

\* The k-th smallest element of I.
Kth(I, k) == CHOOSE i \in I : Cardinality({j \in I : j < i}) = k - 1

\* C5: with the view "All" and a non-empty selection S, the table displayed
\* is exactly the shaped rows whose category is in S, in shaped order.
C5_AllViewShowsSelectedRows ==
    (category = "All" /\ Has("table")) =>
        /\ table.defined
        /\ Len(table.rows) = Cardinality(KeptIdx)
        /\ \A k \in 1..Len(table.rows) : table.rows[k] = Shaped[Kth(KeptIdx, k)]
        /\ \A k \in 1..Len(table.rows) :
               table.rows[k].category \in selected_categories
        /\ total_markets = Cardinality(KeptIdx)
        /\ export = table

C5_Witness ==
    /\ category = "All"
    /\ Has("table")
    /\ Len(table.rows) > 0
    /\ Len(table.rows) < Len(Shaped)

\* C6: a failed fetch (transport failure, no data/markets envelope) or a
\* failed shape (unparseable numeric field, fewer than two outcome entries)
\* aborts the cycle: the failure leaves main, nothing is displayed, the fetch
\* is not retried, and neither sleep nor rerun follows.
C6_FailureAbortsCycle ==
    /\ (Has("fetch") /\ response.kind # "ok") =>
        /\ pc = "raised"
        /\ error.stage = "fetch"
        /\ events = <<"fetch">>
    /\ (Has("shape") /\ \E i \in 1..Len(raw_data) : Malformed(raw_data[i])) =>
        /\ pc = "raised"
        /\ error.stage = "shape"
        /\ events = <<"fetch", "shape">>
    /\ (pc = "raised" /\ error.stage \in {"fetch", "shape"}) =>
        /\ Len(requests) = 1
        /\ total_markets = -1
        /\ market_data = NoRow
        /\ table = NoFrame
        /\ export = NoFrame
        /\ slept = 0
        /\ ~Has("overview") /\ ~Has("details") /\ ~Has("table")
        /\ ~Has("sleep") /\ ~Has("rerun")
        /\ ~ENABLED Next

C6_Witness ==
    /\ pc = "raised"
    /\ error = [stage |-> "shape", type |-> "IndexError"]
    /\ Len(raw_data) = 2
    /\ WellFormed(raw_data[1])
    /\ Len(raw_data[2].outcomes) < 2

\* C7: cycles never overlap and have a fixed step order: one fetch, then one
\* reshape of that fetch's result, then the display; a further cycle starts
\* only after the previous one displayed its table and paused for
\* refresh_interval seconds, and it starts with no table.
C7_CyclesOrderedNoOverlap ==
    /\ IsPrefix(events, CycleOrder) \/ events = <<"warning">>
    /\ Len(requests) = Count("fetch")
    /\ Has("shape") => raw_data = response.markets
    /\ ~Has("shape") => (df = NoFrame /\ now = 0)
    /\ ~Has("table") => (table = NoFrame /\ export = NoFrame)
    /\ Has("table") =>
        /\ table = FilterView([defined |-> TRUE, rows |-> Shaped],
                              category, selected_categories)
        /\ export = table
    /\ Has("sleep") => (auto_refresh /\ slept = refresh_interval)
    /\ prev_events # <<>> => prev_events = CycleOrder
    /\ pc = "start" => (events = <<>> /\ requests = <<>> /\ raw_data = <<>>)

C7_Witness ==
    /\ prev_events = CycleOrder
    /\ events = CycleOrder
    /\ slept = refresh_interval

\* C8: for a fixed now, days_to_end of every row is the floor of
\* (end_date - now) in whole days, so it is negative for every market that
\* ended before now, and -1 for one that ended less than a day ago.
C8_DaysToEndIsFloor ==
    df.defined =>
        \A i \in 1..Len(df.rows) :
            LET r == df.rows[i]
                d == r.end_date - now
            IN /\ r.days_to_end * SecondsPerDay <= d
               /\ d < (r.days_to_end + 1) * SecondsPerDay
               /\ (r.end_date < now) => (r.days_to_end < 0)
               /\ (d < 0 /\ d > -SecondsPerDay) => (r.days_to_end = -1)

C8_Witness ==
    /\ df.defined
    /\ \E i \in 1..Len(df.rows) :
        /\ df.rows[i].end_date < now
        /\ df.rows[i].end_date > now - SecondsPerDay
        /\ df.rows[i].days_to_end = -1

\* C9: with a non-empty selection and auto-refresh disabled, a cycle whose
\* fetch, shape and display succeed is the only one and main returns with no
\* pause or rerun; the pause of refresh_interval seconds followed by the
\* rerun request happens only with auto-refresh enabled and is the only
\* suspension; the loop body runs at most once per invocation.
C9_OneCyclePerInvocation ==
    /\ \A e \in {"fetch", "shape", "overview", "details", "table", "sleep",
                 "rerun"} : Count(e) <= 1
    /\ (selected_categories # {} /\ ~auto_refresh /\ Has("table")
            /\ pc # "refresh") =>
        /\ pc = "returned"
        /\ events = <<"fetch", "shape", "overview", "details", "table">>
        /\ slept = 0
        /\ ~ENABLED Next
    /\ (pc = "refresh" /\ ~auto_refresh) => (ENABLED Break /\ ~ENABLED AutoRefresh)
    /\ Has("sleep") =>
        /\ auto_refresh
        /\ Has("table")
        /\ slept = refresh_interval
    /\ ~Has("sleep") => slept = 0
    /\ Has("rerun") => (Len(events) >= 2 /\ events[Len(events) - 1] = "sleep")
    /\ (pc = "returned" /\ selected_categories # {}) => ~auto_refresh

C9_Witness ==
    /\ pc = "returned"
    /\ selected_categories # {}
    /\ ~auto_refresh
    /\ Has("table")

\* C10: with a specific category as the view, no client-side filter is
\* applied: the table displayed and exported is the output of process_data
\* on the fetched records, row for row, whatever categories came back.
C10_CategoryViewUnfiltered ==
    (category # "All" /\ Has("table")) =>
        /\ table = [defined |-> TRUE, rows |-> Shaped]
        /\ export = table
        /\ Len(table.rows) = Len(raw_data)
        /\ \A i \in 1..Len(raw_data) :
            /\ table.rows[i].id = raw_data[i].id
            /\ table.rows[i].category = raw_data[i].category

C10_Witness ==
    /\ category # "All"
    /\ Has("table")
    /\ \E i \in 1..Len(table.rows) : table.rows[i].category # category

====
